---- MODULE Spec2Model ----
(***************************************************************************)
(* Model of two units of zsdx:                                             *)
(*   - PixelBits (src/src/PixelBits.cpp): the per-pixel opacity bitmap     *)
(*     built from an 8-bit surface, and the pixel-precise collision test;  *)
(*   - TransportableItem (src/src/entities/TransportableItem.cpp): the     *)
(*     callbacks of an item that the hero can lift or cut.                 *)
(*                                                                         *)
(* A Uint32 is modelled by the set of the indices of its set bits          *)
(* (31 is the most significant bit, 0x80000000 is {31}, 0 is {}): the      *)
(* value 0x80000000 does not fit the integers of the model checker. The    *)
(* operators on words below give >>, & and | on that encoding.             *)
(***************************************************************************)
EXTENDS Integers, Sequences, FiniteSets, TLC

VARIABLES
    pc,               \* position of the scenario
    surface,          \* SDL_Surface handed to the constructor of `this`
    image_position,   \* SDL_Rect handed to the constructor of `this`
    this,             \* a PixelBits object
    other,            \* another PixelBits object
    location1,        \* position of `this` on the map
    location2,        \* position of `other` on the map
    shift32,          \* what the build makes of a Uint32 shifted by 32
    call1,            \* outcome of this->check_collision(other, location1, location2)
    call2,            \* outcome of other->check_collision(this, location2, location1)
    item,             \* a TransportableItem and the map entry that holds it
    keys_effect       \* KeysEffect: the current effect of the action key

vars == <<pc, surface, image_position, this, other, location1, location2,
          shift32, call1, call2, item, keys_effect>>

pixelVars == <<surface, image_position, this, other, location1, location2,
               shift32, call1, call2>>

itemVars == <<item, keys_effect>>

(***************************************************************************)
(* Bounds of the model.                                                    *)
(***************************************************************************)
MaxWords == 3         \* widest bitmap of a collision query: 32 * MaxWords pixels
MaxHeight == 2        \* tallest bitmap
MaxMargin == 1        \* pixels of the surface around the extracted rectangle

(***************************************************************************)
(* Uint32 words.                                                           *)
(***************************************************************************)
WordBits == 32

ZeroWord == {}

HighBit == {WordBits - 1}

\* x >> n for a Uint32 x. A shift by the full width is undefined in C++:
\* the builds at hand either mask the count to its 5 low bits (x86) or
\* shift everything out, which `ub` selects.
ShiftRight(x, n, ub) ==
    IF n \in 0..(WordBits - 1)
    THEN {b - n : b \in {c \in x : c >= n}}
    ELSE IF ub = "wrap" THEN {b - (n % WordBits) : b \in {c \in x : c >= n % WordBits}}
    ELSE ZeroWord

BitAnd(x, y) == x \cap y

BitOr(x, y) == x \cup y

\* the / and % of C++ on int: the quotient is truncated towards zero
CDiv(a, b) == IF a >= 0 THEN a \div b ELSE -((-a) \div b)

CMod(a, b) == a - b * CDiv(a, b)

\* the cast (Uint8)
Uint8(v) == v % 256

MAX(a, b) == IF a > b THEN a ELSE b

MIN(a, b) == IF a < b THEN a ELSE b

(***************************************************************************)
(* PixelBits::PixelBits                                                    *)
(***************************************************************************)

\* the inner loop of the constructor: fills the words of one row.
\* st = [j, k, mask, row, pixel_index]
RECURSIVE FillRow(_, _, _, _)
FillRow(pixels, colorkey, width, st) ==
    IF ~(st.j < width) THEN st
    ELSE
        LET newWord == st.mask = ZeroWord
            k == IF newWord THEN st.k + 1 ELSE st.k
            mask == IF newWord THEN HighBit ELSE st.mask
            row0 == IF newWord THEN (k :> ZeroWord) @@ st.row ELSE st.row
            row1 == IF pixels[st.pixel_index] # colorkey
                    THEN [row0 EXCEPT ![k] = BitOr(@, mask)]
                    ELSE row0
        IN FillRow(pixels, colorkey, width,
                   [j |-> st.j + 1, k |-> k, mask |-> ShiftRight(mask, 1, "zero"),
                    row |-> row1, pixel_index |-> st.pixel_index + 1])

\* the outer loop of the constructor: st = [i, bits, pixel_index]
RECURSIVE FillRows(_, _, _, _, _)
FillRows(surf, colorkey, width, height, st) ==
    IF ~(st.i < height) THEN st
    ELSE
        LET r == FillRow(surf.pixels, colorkey, width,
                         [j |-> 0, k |-> -1, mask |-> ZeroWord, row |-> << >>,
                          pixel_index |-> st.pixel_index])
        IN FillRows(surf, colorkey, width, height,
                    [i |-> st.i + 1,
                     bits |-> (st.i :> r.row) @@ st.bits,
                     pixel_index |-> r.pixel_index + surf.w - width])

\* a faulty variant: one more word in every case
NbIntegersPerRow_always(width) == CDiv(width, WordBits) + 1

NbIntegersPerRow(width) ==
    IF CMod(width, WordBits) # 0 THEN CDiv(width, WordBits) + 1 ELSE CDiv(width, WordBits)

PixelBits(surf, pos) ==
    LET width == pos.w
        height == pos.h
        colorkey == Uint8(surf.colorkey)
        filled == FillRows(surf, colorkey, width, height,
                           [i |-> 0, bits |-> << >>,
                            pixel_index |-> pos.y * surf.w + pos.x])
    IN [width |-> width, height |-> height,
        nb_integers_per_row |-> NbIntegersPerRow(width),
        bits |-> filled.bits]

(***************************************************************************)
(* PixelBits::check_rectangle_collision                                    *)
(***************************************************************************)
\* a faulty variant: the two comparisons on x joined by "or"
check_rectangle_collision_or(rectangle1, rectangle2) ==
    LET x1 == rectangle1.x
        x2 == x1 + rectangle1.w
        x3 == rectangle2.x
        x4 == x3 + rectangle2.w
        overlap_x == (x3 < x2 \/ x1 < x4)
        y1 == rectangle1.y
        y2 == y1 + rectangle1.h
        y3 == rectangle2.y
        y4 == y3 + rectangle2.h
        overlap_y == (y3 < y2 /\ y1 < y4)
    IN overlap_x /\ overlap_y

check_rectangle_collision(rectangle1, rectangle2) ==
    LET x1 == rectangle1.x
        x2 == x1 + rectangle1.w
        x3 == rectangle2.x
        x4 == x3 + rectangle2.w
        overlap_x == (x3 < x2 /\ x1 < x4)
        y1 == rectangle1.y
        y2 == y1 + rectangle1.h
        y3 == rectangle2.y
        y4 == y3 + rectangle2.h
        overlap_y == (y3 < y2 /\ y1 < y4)
    IN overlap_x /\ overlap_y

(***************************************************************************)
(* PixelBits::check_collision                                              *)
(***************************************************************************)

\* the two bounding boxes
BoundingBox(obj, location) ==
    [x |-> location.x, y |-> location.y, w |-> obj.width, h |-> obj.height]

\* a faulty variant: the + 1 on the wrong side of the comparison
HasRowBAdditionalMask_le(nb_masks_per_row_a, nb_unused_masks_row_b, nb_integers_per_row_b) ==
    nb_masks_per_row_a + nb_unused_masks_row_b < nb_integers_per_row_b + 1

\* has_row_b_additional_mask, for the bitmap that gives row b
HasRowBAdditionalMask(nb_masks_per_row_a, nb_unused_masks_row_b, nb_integers_per_row_b) ==
    nb_masks_per_row_a + nb_unused_masks_row_b + 1 < nb_integers_per_row_b

\* a faulty variant: the count is not rounded up
NbMasksPerRowA_floor(w) == CDiv(w, WordBits)

\* the number of masks on row a
NbMasksPerRowA(w) ==
    IF CMod(w, WordBits) # 0 THEN CDiv(w, WordBits) + 1 ELSE CDiv(w, WordBits)

\* everything check_collision computes before its loops, the bounding boxes
\* being known to overlap. "self" is the object the method is called on.
Geometry(self, oth, loc1, loc2) ==
    LET bounding_box1 == BoundingBox(self, loc1)
        bounding_box2 == BoundingBox(oth, loc2)
        ix == MAX(bounding_box1.x, bounding_box2.x)
        iy == MAX(bounding_box1.y, bounding_box2.y)
        intersection ==
            [x |-> ix, y |-> iy,
             w |-> MIN(bounding_box1.x + bounding_box1.w,
                       bounding_box2.x + bounding_box2.w) - ix,
             h |-> MIN(bounding_box1.y + bounding_box1.h,
                       bounding_box2.y + bounding_box2.h) - iy]
        offset_x1 == intersection.x - bounding_box1.x
        offset_y1 == intersection.y - bounding_box1.y
        offset_x2 == intersection.x - bounding_box2.x
        offset_y2 == intersection.y - bounding_box2.y
        nb_masks_per_row_a == NbMasksPerRowA(intersection.w)
        selfIsA == bounding_box1.x > bounding_box2.x
        nb_unused_masks_row_b ==
            IF selfIsA THEN CDiv(offset_x2, WordBits) ELSE CDiv(offset_x1, WordBits)
        nb_unused_bits_row_b ==
            IF selfIsA THEN CMod(offset_x2, WordBits) ELSE CMod(offset_x1, WordBits)
    IN [intersection |-> intersection,
        rows_a |-> IF selfIsA THEN "self" ELSE "other",
        rows_b |-> IF selfIsA THEN "other" ELSE "self",
        first_row_a |-> IF selfIsA THEN offset_y1 ELSE offset_y2,
        first_row_b |-> IF selfIsA THEN offset_y2 ELSE offset_y1,
        nb_masks_per_row_a |-> nb_masks_per_row_a,
        nb_unused_masks_row_b |-> nb_unused_masks_row_b,
        nb_unused_bits_row_b |-> nb_unused_bits_row_b,
        has_row_b_additional_mask |->
            HasRowBAdditionalMask(nb_masks_per_row_a, nb_unused_masks_row_b,
                                  IF selfIsA THEN oth.nb_integers_per_row
                                  ELSE self.nb_integers_per_row),
        nb_used_bits_row_b |-> WordBits - nb_unused_bits_row_b]

InBounds(obj, row, word) ==
    /\ row \in 0..(obj.height - 1)
    /\ word \in 0..(obj.nb_integers_per_row - 1)

\* bits[row][word] of a bitmap. A read outside the arrays is recorded by the
\* caller; here it yields a zero word.
ReadWord(obj, row, word) ==
    IF InBounds(obj, row, word) THEN obj.bits[row][word] ELSE ZeroWord

\* the inner loop: acc = [collision, reads, shifts]
RECURSIVE MaskLoop(_, _, _, _, _, _, _)
MaskLoop(g, objA, objB, ub, i, j, acc) ==
    IF ~(j < g.nb_masks_per_row_a /\ ~acc.collision) THEN acc
    ELSE
        LET rowA == g.first_row_a + i
            rowB == g.first_row_b + i
            mask_a == ReadWord(objA, rowA, j)
            mask_b == ReadWord(objB, rowB, j + g.nb_unused_masks_row_b)
            next_mask_b_left ==
                IF g.has_row_b_additional_mask
                THEN ShiftRight(ReadWord(objB, rowB, j + g.nb_unused_masks_row_b + 1),
                                g.nb_used_bits_row_b, ub)
                ELSE ZeroWord
            mask_a_left == ShiftRight(mask_a, g.nb_unused_bits_row_b, ub)
            collision ==
                BitOr(BitAnd(mask_a_left, mask_b), BitAnd(mask_a, next_mask_b_left))
                    # ZeroWord
            reads ==
                {[of |-> g.rows_a, row |-> rowA, word |-> j],
                 [of |-> g.rows_b, row |-> rowB, word |-> j + g.nb_unused_masks_row_b]}
                \cup (IF g.has_row_b_additional_mask
                      THEN {[of |-> g.rows_b, row |-> rowB,
                             word |-> j + g.nb_unused_masks_row_b + 1]}
                      ELSE {})
            shifts ==
                {g.nb_unused_bits_row_b}
                \cup (IF g.has_row_b_additional_mask THEN {g.nb_used_bits_row_b} ELSE {})
        IN MaskLoop(g, objA, objB, ub, i, j + 1,
                    [collision |-> collision,
                     reads |-> acc.reads \cup reads,
                     shifts |-> acc.shifts \cup shifts])

\* the outer loop
RECURSIVE RowLoop(_, _, _, _, _, _)
RowLoop(g, objA, objB, ub, i, acc) ==
    IF ~(i < g.intersection.h /\ ~acc.collision) THEN acc
    ELSE RowLoop(g, objA, objB, ub, i + 1, MaskLoop(g, objA, objB, ub, i, 0, acc))

\* self->check_collision(oth, loc1, loc2): the value returned, with the array
\* reads and the shift counts of the call
check_collision(self, oth, loc1, loc2, ub) ==
    IF ~check_rectangle_collision(BoundingBox(self, loc1), BoundingBox(oth, loc2))
    THEN [returned |-> FALSE, reads |-> {}, shifts |-> {}]
    ELSE
        LET g == Geometry(self, oth, loc1, loc2)
            objA == IF g.rows_a = "self" THEN self ELSE oth
            objB == IF g.rows_b = "self" THEN self ELSE oth
            acc == RowLoop(g, objA, objB, ub, 0,
                           [collision |-> FALSE, reads |-> {}, shifts |-> {}])
        IN [returned |-> acc.collision, reads |-> acc.reads, shifts |-> acc.shifts]

(***************************************************************************)
(* The inputs of the collision queries: bitmaps built by the constructor   *)
(* from 8-bit images, and positions around the word boundaries.            *)
(***************************************************************************)
NoSurface == [w |-> 0, h |-> 0, BitsPerPixel |-> 8, colorkey |-> 0, pixels |-> << >>]

NoRect == [x |-> 0, y |-> 0, w |-> 0, h |-> 0]

NoBits == [width |-> 0, height |-> 0, nb_integers_per_row |-> 0, bits |-> << >>]

NoCall == [returned |-> FALSE, reads |-> {}, shifts |-> {}]

NoItem == [type |-> "none"]

\* A Uint32 shifted by 32 is undefined: a build either masks the count to 5
\* bits, and the word comes back unchanged ("wrap"), or yields 0 ("zero").
\* Which one is settled by the first query that makes such a shift.
ShiftOutcomes == {"zero", "wrap"}

Widths == {w \in 1..(WordBits * MaxWords) : w \in {1, 33, 40} \/ w % WordBits = 0}

Heights == {1, MaxHeight}

\* the columns next to a word boundary, and the last one
Columns(w) == {c \in 0..(w - 1) : c % WordBits \in {0, WordBits - 1} \/ c = w - 1}

Patterns(w) ==
    {[kind |-> "opaque", col |-> 0], [kind |-> "transparent", col |-> 0]}
    \cup {[kind |-> "pixel", col |-> c] : c \in Columns(w)}

\* colour index of the pixel (x, y) of an image of height h drawn after pattern p:
\* index 0 is the transparent colour
PatternPixel(p, h, x, y) ==
    CASE p.kind = "opaque" -> 1
      [] p.kind = "transparent" -> 0
      [] OTHER -> IF x = p.col /\ y = h - 1 THEN 2 ELSE 0

\* a surface of exactly w x h pixels
Image(w, h, p) ==
    [w |-> w, h |-> h, BitsPerPixel |-> 8, colorkey |-> 0,
     pixels |-> [idx \in 0..(w * h - 1) |-> PatternPixel(p, h, idx % w, idx \div w)]]

Bitmaps ==
    UNION {{PixelBits(Image(w, h, p), [x |-> 0, y |-> 0, w |-> w, h |-> h]) :
                p \in Patterns(w), h \in Heights} : w \in Widths}

\* horizontal distances around the multiples of the word width
\* (the swapped call of each query covers the negative distances)
OffsetsX ==
    {d \in 0..(WordBits * MaxWords) :
        d % WordBits \in {0, 1, WordBits - 1} \/ d = 35}

\* vertical distances: no common row, one row of difference, none
OffsetsY == {-MaxHeight, -1, 0, 1}

(***************************************************************************)
(* Specification of the collision queries.                                 *)
(***************************************************************************)
Init ==
    /\ pc = "built"
    /\ surface = NoSurface
    /\ image_position = NoRect
    /\ this \in Bitmaps
    /\ other \in Bitmaps
    /\ location1 = [x |-> 0, y |-> 0]
    /\ \E dx \in OffsetsX, dy \in OffsetsY : location2 = [x |-> dx, y |-> dy]
    /\ shift32 = "unobserved"
    /\ call1 = NoCall
    /\ call2 = NoCall
    /\ item = NoItem
    /\ keys_effect = "ACTION_KEY_NONE"

\* this->check_collision(other, location1, location2)
CheckCollision ==
    /\ pc = "built"
    /\ \E ub \in ShiftOutcomes :
        LET c == check_collision(this, other, location1, location2, ub)
        IN /\ shift32 \in {"unobserved", ub}
           /\ call1' = c
           /\ shift32' = IF WordBits \in c.shifts THEN ub ELSE shift32
    /\ pc' = "called"
    /\ UNCHANGED <<surface, image_position, this, other, location1, location2,
                   call2, itemVars>>

\* other->check_collision(this, location2, location1)
CheckCollisionSwapped ==
    /\ pc = "called"
    /\ \E ub \in ShiftOutcomes :
        LET c == check_collision(other, this, location2, location1, ub)
        IN /\ shift32 \in {"unobserved", ub}
           /\ call2' = c
           /\ shift32' = IF WordBits \in c.shifts THEN ub ELSE shift32
    /\ pc' = "done"
    /\ UNCHANGED <<surface, image_position, this, other, location1, location2,
                   call1, itemVars>>

Next == CheckCollision \/ CheckCollisionSwapped

Spec == Init /\ [][Next]_vars

(***************************************************************************)
(* What the claims about the collision queries are stated with.            *)
(***************************************************************************)

\* the queries made so far, each with its operands as the callee saw them
PerformedCalls ==
    (IF pc \in {"called", "done"}
     THEN {[self |-> this, oth |-> other, loc1 |-> location1, loc2 |-> location2,
            out |-> call1]}
     ELSE {})
    \cup
    (IF pc = "done"
     THEN {[self |-> other, oth |-> this, loc1 |-> location2, loc2 |-> location1,
            out |-> call2]}
     ELSE {})

\* the pixels <<column, row>> of a bitmap that are opaque
OpaquePixels(obj) ==
    UNION {{<<k * WordBits + (WordBits - 1 - b), r>> : b \in obj.bits[r][k]} :
              <<r, k>> \in (0..(obj.height - 1)) \X (0..(obj.nb_integers_per_row - 1))}

\* every pixel of the bitmap is opaque
FullyOpaque(obj) ==
    \A r \in 0..(obj.height - 1), k \in 0..(obj.nb_integers_per_row - 1) :
        obj.bits[r][k] = {b \in 0..(WordBits - 1) : k * WordBits + (WordBits - 1 - b) < obj.width}

\* some pixel of the plane is opaque in both bitmaps
PixelsOverlap(objA, posA, objB, posB) ==
    LET pixelsB == OpaquePixels(objB)
    IN \E pa \in OpaquePixels(objA) :
          /\ pa[1] < objA.width
          /\ pa[1] + posA.x - posB.x \in 0..(objB.width - 1)
          /\ <<pa[1] + posA.x - posB.x, pa[2] + posA.y - posB.y>> \in pixelsB

\* the bounding boxes share a pixel, intervals being half-open
BoxesOverlap(objA, posA, objB, posB) ==
    /\ posB.x < posA.x + objA.width
    /\ posA.x < posB.x + objB.width
    /\ posB.y < posA.y + objA.height
    /\ posA.y < posB.y + objB.height

\* the bitmap a call takes its row a or its row b from
RowObject(c, name) == IF name = "self" THEN c.self ELSE c.oth

CallGeometry(c) == Geometry(c.self, c.oth, c.loc1, c.loc2)

\* C1: check_collision returns true if and only if some pixel of the plane lies
\* in both bounding boxes and is opaque in both bitmaps.
C1_ExactCollision ==
    \A c \in PerformedCalls :
        c.out.returned <=> PixelsOverlap(c.self, c.loc1, c.oth, c.loc2)

\* C2: check_collision is symmetric: the call and the call with the operands
\* swapped return the same value.
C2_Symmetric ==
    pc = "done" => call1.returned = call2.returned

\* C3: when the bounding boxes share no pixel (touching edges included), the
\* call returns false and reads no word of either bitmap.
C3_BoundingBoxRejection ==
    \A c \in PerformedCalls :
        ~BoxesOverlap(c.self, c.loc1, c.oth, c.loc2)
            => (c.out.returned = FALSE /\ c.out.reads = {})

\* two bitmaps with an opaque pixel each that touch along a vertical edge
C3_Witness ==
    /\ pc = "done"
    /\ location2.x = location1.x + this.width
    /\ location2.y = location1.y
    /\ FullyOpaque(this) /\ FullyOpaque(other)
    /\ call1.returned = FALSE /\ call2.returned = FALSE

\* C5: two fully opaque bitmaps whose bounding boxes overlap collide.
C5_OpaqueCollide ==
    \A c \in PerformedCalls :
        (/\ FullyOpaque(c.self) /\ FullyOpaque(c.oth)
         /\ BoxesOverlap(c.self, c.loc1, c.oth, c.loc2))
            => c.out.returned = TRUE

\* the scenario of 40 x 2 bitmaps at (0, 0) and (35, 0)
C5_Witness ==
    /\ pc = "done"
    /\ this.width = 40 /\ this.height = 2 /\ FullyOpaque(this)
    /\ other.width = 40 /\ other.height = 2 /\ FullyOpaque(other)
    /\ location1 = [x |-> 0, y |-> 0] /\ location2 = [x |-> 35, y |-> 0]
    /\ call1.returned /\ call2.returned

\* C6: every word a query reads lies inside the arrays of its bitmap: the row
\* is in [0, height) and the word in [0, nb_integers_per_row).
C6_ReadsInBounds ==
    \A c \in PerformedCalls :
        \A r \in c.out.reads :
            /\ 0 <= r.row /\ r.row < RowObject(c, r.of).height
            /\ 0 <= r.word /\ r.word < RowObject(c, r.of).nb_integers_per_row

\* a query that reads the next word of row b, up to the last word of the row
C6_Witness ==
    /\ pc = "done"
    /\ BoxesOverlap(this, location1, other, location2)
    /\ CallGeometry([self |-> this, oth |-> other, loc1 |-> location1,
                     loc2 |-> location2]).has_row_b_additional_mask
    /\ \E r \in call1.reads : r.of = "self" /\ r.word = this.nb_integers_per_row - 2
    /\ \E r \in call1.reads : r.of = "self" /\ r.row = this.height - 1 /\ r.row > 0
    /\ \E r \in call2.reads : r.of = "other" /\ r.word > 0

\* C7: has_row_b_additional_mask is true whenever row b has a word after those
\* that nb_masks_per_row_a and nb_unused_masks_row_b cover.
C7_AdditionalMaskWhenNextWordExists ==
    \A c \in PerformedCalls :
        BoxesOverlap(c.self, c.loc1, c.oth, c.loc2) =>
            LET g == CallGeometry(c)
            IN (g.nb_masks_per_row_a + g.nb_unused_masks_row_b
                    < RowObject(c, g.rows_b).nb_integers_per_row)
                => g.has_row_b_additional_mask

\* C8: check_collision has no false positive: when it returns true, some pixel
\* of the plane is opaque in both bitmaps.
C8_NoFalsePositive ==
    \A c \in PerformedCalls :
        c.out.returned => PixelsOverlap(c.self, c.loc1, c.oth, c.loc2)

\* C9: every right shift of a query has a count in [0, 31].
C9_ShiftCountsBelowWordWidth ==
    \A c \in PerformedCalls :
        \A n \in c.out.shifts : 0 <= n /\ n <= WordBits - 1

(***************************************************************************)
(* Specification of the construction of a bitmap from a surface.           *)
(***************************************************************************)
BuildWidths == Widths \cup {2, WordBits - 1}

Textures == {"mod2", "mod3", "diagonal"}

\* colour index of the pixel stored at idx
TexturePixel(t, idx) ==
    CASE t = "mod2" -> idx % 2
      [] t = "mod3" -> idx % 3
      [] OTHER -> (idx + idx \div 5) % 2

BuildInputs ==
    {[w |-> w, h |-> h, x |-> x, y |-> y, right |-> r, t |-> t, colorkey |-> c, bpp |-> b] :
        w \in BuildWidths, h \in 1..MaxHeight, x \in 0..MaxMargin, y \in 0..MaxMargin,
        r \in 0..MaxMargin, t \in Textures, c \in {0, 1}, b \in {8, 32}}

BuildSurface(in) ==
    LET sw == in.x + in.w + in.right
        sh == in.y + in.h
    IN [w |-> sw, h |-> sh, BitsPerPixel |-> in.bpp, colorkey |-> in.colorkey,
        pixels |-> [idx \in 0..(sw * sh - 1) |-> TexturePixel(in.t, idx)]]

InitBuild ==
    /\ pc = "new"
    /\ \E in \in BuildInputs :
        /\ surface = BuildSurface(in)
        /\ image_position = [x |-> in.x, y |-> in.y, w |-> in.w, h |-> in.h]
    /\ this = NoBits
    /\ other = NoBits
    /\ location1 = [x |-> 0, y |-> 0]
    /\ location2 = [x |-> 0, y |-> 0]
    /\ shift32 = "unobserved"
    /\ call1 = NoCall
    /\ call2 = NoCall
    /\ item = NoItem
    /\ keys_effect = "ACTION_KEY_NONE"

\* new PixelBits(surface, image_position) on an 8-bit surface
Construct ==
    /\ pc = "new"
    /\ surface.BitsPerPixel = 8
    /\ this' = PixelBits(surface, image_position)
    /\ pc' = "built"
    /\ UNCHANGED <<surface, image_position, other, location1, location2,
                   shift32, call1, call2, itemVars>>

\* new PixelBits(surface, image_position) on another format: DIE
ConstructDie ==
    /\ pc = "new"
    /\ surface.BitsPerPixel # 8
    /\ pc' = "died"
    /\ UNCHANGED <<pixelVars, itemVars>>

NextBuild == Construct \/ ConstructDie

SpecBuild == InitBuild /\ [][NextBuild]_vars

\* C4: the constructed bitmap has ceil(w / 32) words per row, bit (31 - j mod 32)
\* of word (j div 32) of row i is set exactly when the source byte at
\* (y + i) * stride + x + j differs from the transparent index, and no bit of
\* a column >= w is set.
C4_Construction ==
    pc = "built" =>
        LET w == image_position.w
            h == image_position.h
            n == this.nb_integers_per_row
        IN /\ this.width = w /\ this.height = h
           /\ n * WordBits >= w /\ (n - 1) * WordBits < w
           /\ DOMAIN this.bits = 0..(h - 1)
           /\ \A i \in 0..(h - 1) :
                /\ DOMAIN this.bits[i] = 0..(n - 1)
                /\ \A j \in 0..(w - 1) :
                     ((WordBits - 1 - (j % WordBits)) \in this.bits[i][j \div WordBits])
                        <=> (surface.pixels[(image_position.y + i) * surface.w
                                            + image_position.x + j]
                                # surface.colorkey)
                /\ \A k \in 0..(n - 1) :
                     \A b \in this.bits[i][k] :
                        b \in 0..(WordBits - 1) /\ k * WordBits + (WordBits - 1 - b) < w

\* a rectangle of 64 x 2 pixels (two full words per row) taken inside a wider
\* surface, with opaque and transparent pixels
C4_Witness ==
    /\ pc = "built"
    /\ image_position = [x |-> 1, y |-> 1, w |-> 2 * WordBits, h |-> 2]
    /\ surface.w > image_position.x + image_position.w
    /\ this.nb_integers_per_row = 2
    /\ \E i \in 0..1, k \in 0..1 :
          this.bits[i][k] # {} /\ this.bits[i][k] # 0..(WordBits - 1)

(***************************************************************************)
(* TransportableItem                                                       *)
(*                                                                         *)
(* item is the object and what its callbacks do to the rest of the game:   *)
(* on_map (the map still holds it), pickables (the calls of                *)
(* add_pickable_item), lifted (Link::start_lifting was called with it),    *)
(* sound (the last sound played), animation and sprite_over (its sprite),  *)
(* obstacle. What the callbacks read from Link, Equipment and the          *)
(* overlapping sprite are their inputs.                                    *)
(***************************************************************************)
ItemTypes == {"POT", "SKULL", "BUSH", "STONE_SMALL_WHITE", "STONE_SMALL_BLACK"}

\* TransportableItem::properties
properties ==
    [t \in ItemTypes |->
        CASE t = "POT" -> [animation_set_id |-> "entities/pot", breaking_sound_id |-> "stone", weight |-> 0]
          [] t = "SKULL" -> [animation_set_id |-> "entities/skull", breaking_sound_id |-> "stone", weight |-> 0]
          [] t = "BUSH" -> [animation_set_id |-> "entities/bush", breaking_sound_id |-> "bush", weight |-> 0]
          [] t = "STONE_SMALL_WHITE" -> [animation_set_id |-> "entities/stone_small_white", breaking_sound_id |-> "stone", weight |-> 1]
          [] OTHER -> [animation_set_id |-> "entities/stone_small_white", breaking_sound_id |-> "stone", weight |-> 2]]

PickableItems == {"NONE", "ARROW_10"}

KeysEffects == {"ACTION_KEY_NONE", "ACTION_KEY_LIFT", "ACTION_KEY_OTHER"}

LinkStates == {"FREE", "SWORD_SWINGING", "SPIN_ATTACK", "OTHER"}

\* the item created by the constructor at (x, y), its rectangle being 16 x 16
TransportableItem(type, x, y, pickable_item) ==
    [type |-> type,
     position_in_map |-> [x |-> x, y |-> y, w |-> 16, h |-> 16],
     pickable_item |-> pickable_item,
     is_breaking |-> FALSE,
     collision_mode |->
        IF type = "BUSH" THEN {"COLLISION_FACING_POINT", "COLLISION_SPRITE"}
        ELSE {"COLLISION_FACING_POINT"},
     animation |-> "default",
     sprite_over |-> FALSE,
     obstacle |-> "default",
     sound |-> "none",
     lifted |-> FALSE,
     pickables |-> 0,
     on_map |-> TRUE]

\* map->get_entities()->add_pickable_item(...), when the item holds one
AddPickableItem(it) ==
    IF it.pickable_item # "NONE" THEN [it EXCEPT !.pickables = @ + 1] ELSE it

InitItem ==
    /\ pc = "item"
    /\ surface = NoSurface
    /\ image_position = NoRect
    /\ this = NoBits
    /\ other = NoBits
    /\ location1 = [x |-> 0, y |-> 0]
    /\ location2 = [x |-> 0, y |-> 0]
    /\ shift32 = "unobserved"
    /\ call1 = NoCall
    /\ call2 = NoCall
    /\ \E type \in ItemTypes, pickable_item \in PickableItems :
          item = TransportableItem(type, 32, 48, pickable_item)
    /\ keys_effect \in KeysEffects

\* TransportableItem::collision(MapEntity*)
collision_entity ==
    /\ pc = "item" /\ item.on_map
    /\ \E is_hero \in BOOLEAN, state \in LinkStates, can_lift \in BOOLEAN :
          keys_effect' =
             IF /\ is_hero
                /\ keys_effect = "ACTION_KEY_NONE"
                /\ state = "FREE"
                /\ can_lift
                /\ ~item.is_breaking
             THEN "ACTION_KEY_LIFT"
             ELSE keys_effect
    /\ UNCHANGED <<pc, pixelVars, item>>

\* the points Link may face, around the rectangle of the item
FacingXs == {32 - 15, 32 - 14, 32 + 15, 32 + 30}

FacingYs == {48 - 15, 48 - 14, 48 + 15, 48 + 30}

\* break_bush, as computed from the state of Link. The animation direction
\* of Link is one of 0..3, so the default branch of the switch (DIE) is not
\* taken.
BreakBush(pos, state, animation_direction, movement_direction, facing_point) ==
    IF state = "SPIN_ATTACK" THEN TRUE
    ELSE IF state = "SWORD_SWINGING" \/ movement_direction = animation_direction * 90
    THEN CASE animation_direction = 0 ->
                /\ facing_point.y >= pos.y
                /\ facing_point.y < pos.y + pos.h
                /\ facing_point.x >= pos.x - 14
           [] animation_direction = 1 ->
                /\ facing_point.x >= pos.x
                /\ facing_point.x < pos.x + pos.w
                /\ facing_point.y < pos.y + pos.h + 14
           [] animation_direction = 2 ->
                /\ facing_point.y >= pos.y
                /\ facing_point.y < pos.y + pos.h
                /\ facing_point.x < pos.x + pos.w + 14
           [] OTHER ->
                /\ facing_point.x >= pos.x
                /\ facing_point.x < pos.x + pos.w
                /\ facing_point.y >= pos.y - 14
    ELSE FALSE

\* TransportableItem::collision(MapEntity*, Sprite*)
collision_sprite ==
    /\ pc = "item" /\ item.on_map
    /\ \E is_hero \in BOOLEAN, is_sword \in BOOLEAN, state \in LinkStates,
          animation_direction \in 0..3, movement_direction \in {0, 90, 270},
          fx \in FacingXs, fy \in FacingYs :
          item' =
             IF /\ ~item.is_breaking
                /\ is_hero
                /\ is_sword
                /\ BreakBush(item.position_in_map, state, animation_direction,
                             movement_direction, [x |-> fx, y |-> fy])
             THEN AddPickableItem(
                     [item EXCEPT !.sound = properties[item.type].breaking_sound_id,
                                  !.animation = "destroy",
                                  !.sprite_over = FALSE,
                                  !.obstacle = "OBSTACLE_NONE",
                                  !.is_breaking = TRUE])
             ELSE item
    /\ UNCHANGED <<pc, pixelVars, keys_effect>>

\* a faulty variant: the item is lifted whether or not it is breaking
action_key_pressed_unguarded ==
    /\ pc = "item" /\ item.on_map
    /\ item' =
          IF keys_effect = "ACTION_KEY_LIFT"
          THEN [AddPickableItem([item EXCEPT !.lifted = TRUE, !.sound = "lift"])
                   EXCEPT !.on_map = FALSE]
          ELSE item
    /\ UNCHANGED <<pc, pixelVars, keys_effect>>

\* TransportableItem::action_key_pressed
action_key_pressed ==
    /\ pc = "item" /\ item.on_map
    /\ item' =
          IF keys_effect = "ACTION_KEY_LIFT" /\ ~item.is_breaking
          THEN [AddPickableItem([item EXCEPT !.lifted = TRUE, !.sound = "lift"])
                   EXCEPT !.on_map = FALSE]
          ELSE item
    /\ UNCHANGED <<pc, pixelVars, keys_effect>>

\* TransportableItem::update. MapEntity::update() animates the sprite: its
\* current animation may reach its end during any update.
update ==
    /\ pc = "item" /\ item.on_map
    /\ \E finished \in BOOLEAN :
          LET over == item.sprite_over \/ finished
          IN item' = [item EXCEPT !.sprite_over = over,
                                  !.on_map = ~(item.is_breaking /\ over)]
    /\ UNCHANGED <<pc, pixelVars, keys_effect>>

NextItem == collision_entity \/ collision_sprite \/ action_key_pressed \/ update

SpecItem == InitItem /\ [][NextItem]_vars

\* C10: is_breaking is never cleared; a breaking item is never lifted, whatever
\* the effect of the action key; at most one pickable item is created; and
\* update removes a breaking item only when its destroy animation is over.
C10_BreakingExcludesLifting ==
    [][ /\ (item.is_breaking => item'.is_breaking)
        /\ (item.is_breaking => item'.lifted = item.lifted)
        /\ ~(item'.is_breaking /\ item'.lifted)
        /\ item'.pickables <= 1
        /\ (item.is_breaking /\ item.on_map /\ ~item'.on_map)
              => (item'.animation = "destroy" /\ item'.sprite_over)
      ]_vars

\* an item cut while the action key showed "lift": broken, its pickable item
\* created once, removed after its animation, and never lifted
C10_Witness ==
    /\ pc = "item"
    /\ item.is_breaking /\ keys_effect = "ACTION_KEY_LIFT"
    /\ ~item.on_map /\ item.sprite_over
    /\ item.pickables = 1 /\ ~item.lifted

====
